---- MODULE Spec2Model ----
(***************************************************************************)
(* Campaign persistence layer of vbam-cma: one SQLite file per campaign    *)
(* in the data folder, handles (Campaign / DataStore) owning a pool on a   *)
(* file, schema provisioning, the systems table and the CSV import.        *)
(*                                                                         *)
(* Text is modelled as sequences of one-character strings so that the      *)
(* string transforms of the code (replace, file_stem, extension, parse)    *)
(* are computed, not assumed.  The file system follows POSIX: removing a   *)
(* file unlinks its name, an open pool keeps its inode.                    *)
(***************************************************************************)
EXTENDS Integers, Sequences, FiniteSets, TLC

VARIABLES api, folder, disk, cmpgn, res, title, cname, leaked, creators

vars == <<api, folder, disk, cmpgn, res, title, cname, leaked, creators>>

\* The state of the application window and of concurrent creators, which the
\* operations of the persistence layer leave alone.
appvars == <<title, cname, leaked, creators>>

\* res: what the last operation returned to its caller (Result<T, Error> as
\* ok / err / val), with the operation and the campaign name it was given.
Res(op, name, ok, err, val) ==
    [op |-> op, name |-> name, ok |-> ok, err |-> err, val |-> val]

(***************************************************************************)
(* Bounds of the model.                                                    *)
(***************************************************************************)
MaxRows == 2
MaxSrcRows == 2
MaxEmpires == 1

(***************************************************************************)
(* Text helpers.                                                           *)
(***************************************************************************)
SeqsUpTo(S, n) == UNION {[1..k -> S] : k \in 0..n}

\* Campaign names the callers pass: two names that differ by a space against
\* an underscore, a name holding both, and the empty name.
Names == {<<"a", " ">>, <<"a", "_">>, <<" ", "_">>, <<>>}

\* str::replace(from, to) for single characters.
replace(s, from, to) == [i \in 1..Len(s) |-> IF s[i] = from THEN to ELSE s[i]]

DbExt == <<"d", "b">>

\* Mutant of database_path: the name is used as it is.
database_path_verbatim(name) == name \o <<".">> \o DbExt

\* database_path / DataStore::path: the file name inside the data folder.
database_path(name) == replace(name, " ", "_") \o <<".">> \o DbExt

\* Index of the last "." of a file name, 0 when there is none.
LastDot(f) ==
    LET dots == {i \in 1..Len(f) : f[i] = "."}
    IN IF dots = {} THEN 0 ELSE CHOOSE i \in dots : \A j \in dots : j <= i

\* Path::extension: none (<<>> stands for None here, no file of the model
\* ends in a dot) when there is no dot or the only dot leads the name.
extension(f) ==
    IF LastDot(f) <= 1 THEN <<>> ELSE SubSeq(f, LastDot(f) + 1, Len(f))

\* Mutant of Path::file_stem: the extension is kept.
file_stem_whole(f) == f
\* Path::file_stem.
file_stem(f) ==
    IF LastDot(f) <= 1 THEN f ELSE SubSeq(f, 1, LastDot(f) - 1)

Digits == {"0", "1", "2", "3", "4", "5", "6", "7", "8", "9"}

DigitVal(c) ==
    CASE c = "0" -> 0 [] c = "1" -> 1 [] c = "2" -> 2 [] c = "3" -> 3
      [] c = "4" -> 4 [] c = "5" -> 5 [] c = "6" -> 6 [] c = "7" -> 7
      [] c = "8" -> 8 [] c = "9" -> 9

I32Max == 2147483647

RECURSIVE DecVal(_)
DecVal(s) ==
    IF Len(s) = 0 THEN 0
    ELSE 10 * DecVal(SubSeq(s, 1, Len(s) - 1)) + DigitVal(s[Len(s)])

\* str::parse::<i32>: an optional sign, then at least one digit, in range.
parse_i32(s) ==
    LET signed == Len(s) > 0 /\ s[1] \in {"+", "-"}
        body == IF signed THEN SubSeq(s, 2, Len(s)) ELSE s
        neg == signed /\ s[1] = "-"
    IN IF Len(body) = 0 \/ \E i \in 1..Len(body) : body[i] \notin Digits
       THEN [ok |-> FALSE, val |-> 0]
       ELSE IF neg
            THEN IF DecVal(body) > I32Max + 1
                 THEN [ok |-> FALSE, val |-> 0]
                 ELSE [ok |-> TRUE, val |-> 0 - DecVal(body)]
            ELSE IF DecVal(body) > I32Max
                 THEN [ok |-> FALSE, val |-> 0]
                 ELSE [ok |-> TRUE, val |-> DecVal(body)]

(***************************************************************************)
(* The contents of one database file.                                      *)
(***************************************************************************)

EmptyDb ==
    [tables |-> <<>>, control |-> <<>>, ground_types |-> <<>>,
     empires |-> <<>>, systems |-> <<>>, sys_seq |-> 0, emp_seq |-> 0]

HasTable(db, t) == \E i \in 1..Len(db.tables) : db.tables[i] = t

\* CREATE TABLE IF NOT EXISTS t
create_table_if_not_exists(db, t) ==
    IF HasTable(db, t) THEN db ELSE [db EXCEPT !.tables = Append(@, t)]

\* Mutant of the control seed: the turn starts at 1.
TurnSeed_one == [key |-> "turn", value |-> <<"1">>]

\* The seed row of control.
TurnSeed == [key |-> "turn", value |-> <<"0">>]

\* Mutant of the control seed insertion: control has no primary key.
insert_turn_nokey(db) ==
    IF ~HasTable(db, "control")
    THEN [ok |-> FALSE, db |-> db]
    ELSE [ok |-> TRUE, db |-> [db EXCEPT !.control = Append(@, TurnSeed)]]
\* INSERT INTO control VALUES ('turn', '0'); key is the PRIMARY KEY.
insert_turn(db) ==
    IF ~HasTable(db, "control")
       \/ \E i \in 1..Len(db.control) : db.control[i].key = TurnSeed.key
    THEN [ok |-> FALSE, db |-> db]
    ELSE [ok |-> TRUE, db |-> [db EXCEPT !.control = Append(@, TurnSeed)]]

GroundSeed == <<"MIL", "LI", "MI", "LA", "MECH", "MAR">>

\* Mutant of the ground type seed: the six rows are inserted twice.
insert_ground_types_twice(db) ==
    IF ~HasTable(db, "ground_types")
    THEN [ok |-> FALSE, db |-> db]
    ELSE [ok |-> TRUE, db |-> [db EXCEPT !.ground_types = @ \o GroundSeed \o GroundSeed]]
\* INSERT INTO ground_types (...) VALUES six rows; ids are autoincrement.
insert_ground_types(db) ==
    IF ~HasTable(db, "ground_types")
    THEN [ok |-> FALSE, db |-> db]
    ELSE [ok |-> TRUE, db |-> [db EXCEPT !.ground_types = @ \o GroundSeed]]

\* One statement of the provisioner.
Exec(db, st) ==
    CASE st.kind = "table" ->
           [ok |-> TRUE, db |-> create_table_if_not_exists(db, st.table)]
      [] st.kind = "turn" -> insert_turn(db)
      [] st.kind = "ground" -> insert_ground_types(db)

T(t) == [kind |-> "table", table |-> t]
SeedTurn == [kind |-> "turn", table |-> "control"]
SeedGround == [kind |-> "ground", table |-> "ground_types"]

\* The tables a table's schema names in a REFERENCES clause.
References(t) ==
    CASE t = "systems" -> {"empires"}
      [] t = "fleets" -> {"empires", "systems"}
      [] t = "ground_units" -> {"ground_types", "systems"}
      [] t = "ship_types" -> {"empires"}
      [] t = "ships" -> {"ship_types", "fleets"}
      [] OTHER -> {}
\* Campaign::create_tables: control, empire::create_table (empires, fleets),
\* system::create_table, unit::create_tables (ground types, ship types, ships).
CampaignStatements ==
    <<T("control"), SeedTurn, T("empires"), T("fleets"), T("systems"),
      T("ground_types"), SeedGround, T("ship_types"), T("ships")>>

\* DataStore::create_tables.
DataStoreStatements ==
    <<T("control"), SeedTurn, T("empires"), T("fleets"),
      T("ground_types"), SeedGround, T("ground_units"), T("ship_types"),
      T("ships"), T("systems")>>

Apis == {"Campaign", "DataStore"}

Statements(a) ==
    IF a = "Campaign" THEN CampaignStatements ELSE DataStoreStatements

\* Runs statements i.. in order; the storage engine fails statement `fault`
\* (0: no storage fault).  Stops at the first error, as `?` does.
RECURSIVE RunFrom(_, _, _, _)
RunFrom(db, sts, i, fault) ==
    IF i > Len(sts) THEN [ok |-> TRUE, db |-> db]
    ELSE IF i = fault THEN [ok |-> FALSE, db |-> db]
    ELSE LET r == Exec(db, sts[i])
         IN IF r.ok THEN RunFrom(r.db, sts, i + 1, fault) ELSE r

create_tables(a, db, fault) == RunFrom(db, Statements(a), 1, fault)

\* SELECT value FROM control WHERE key = 'turn' (fetch_one).
select_turn(db) ==
    IF ~HasTable(db, "control") THEN [ok |-> FALSE, err |-> "Sqlx", val |-> <<>>]
    ELSE LET hit == {i \in 1..Len(db.control) : db.control[i].key = "turn"}
         IN IF hit = {} THEN [ok |-> FALSE, err |-> "RowNotFound", val |-> <<>>]
            ELSE [ok |-> TRUE, err |-> "",
                  val |-> db.control[CHOOSE i \in hit : \A j \in hit : i <= j].value]

\* DataStore::current_turn: a Parse error when the value is no integer.
current_turn(db) ==
    LET r == select_turn(db)
    IN IF ~r.ok THEN [ok |-> FALSE, err |-> r.err, val |-> 0]
       ELSE IF ~parse_i32(r.val).ok THEN [ok |-> FALSE, err |-> "Parse", val |-> 0]
       ELSE [ok |-> TRUE, err |-> "", val |-> parse_i32(r.val).val]

\* The control read of Campaign::open: val.parse().unwrap() panics.
open_turn(db) ==
    LET r == select_turn(db)
    IN IF ~r.ok THEN [ok |-> FALSE, err |-> r.err, val |-> 0]
       ELSE IF ~parse_i32(r.val).ok THEN [ok |-> FALSE, err |-> "panic", val |-> 0]
       ELSE [ok |-> TRUE, err |-> "", val |-> parse_i32(r.val).val]

(***************************************************************************)
(* The data folder, the files and the store the application holds.         *)
(***************************************************************************)
\* An inode is named by the path it was created under and a generation.
Ino(p, g) == [path |-> p, gen |-> g]

NoIno == Ino(<<>>, 0 - 1)

\* VBAMApp.cmpgn: None, or a store whose pool is open or closed.
NoStore == [st |-> "none", ino |-> NoIno, turn |-> 0]

OpenStore(ino, turn) == [st |-> "open", ino |-> ino, turn |-> turn]

\* Mutant of the existence test: the path is never found.
Exists_never(fd, p) == FALSE

\* PathBuf::exists on a file of the data folder.
Exists(fd, p) == p \in DOMAIN fd

\* Inodes still reachable: named in the folder or held by the open pool.
Live(fd, c) ==
    {fd[p] : p \in DOMAIN fd} \cup (IF c.st = "open" THEN {c.ino} ELSE {})

\* The file system reclaims an inode once nothing refers to it.
Reclaim(dk, fd, c) == [i \in DOMAIN dk \cap Live(fd, c) |-> dk[i]]

\* A new file gets the first inode of its path that is not in use (of one
\* path at most the linked file and the file an open pool holds are).
FreshIno(p) ==
    LET free == {g \in 0..2 : Ino(p, g) \notin DOMAIN disk}
    IN Ino(p, CHOOSE g \in free : \A k \in free : g <= k)

\* Storage faults injected into provisioning: none, or the statement that fails.
FaultPoints == {0, 2}

\* The label of the main window: MAIN_TITLE alone, or MAIN_TITLE followed by
\* the campaign title "(name Turn turn)".
BareTitle == [bare |-> TRUE, name |-> <<>>, turn |-> 0]

\* Campaign::title inside the window label.
CampaignTitle(name, turn) == [bare |-> FALSE, name |-> name, turn |-> turn]

\* A task that runs Campaign::new / DataStore::new: where it stands (pc),
\* the statement of the provisioner it is to run next, and what it returned.
Creators == {1, 2}

IdleCreator ==
    [pc |-> "idle", name |-> <<>>, ino |-> NoIno, stmt |-> 0, ok |-> FALSE, err |-> ""]

Init ==
    /\ api \in Apis
    /\ folder = <<>>
    /\ disk = <<>>
    /\ cmpgn = NoStore
    /\ res = Res("init", <<>>, TRUE, "", 0)
    /\ title = BareTitle
    /\ cname = <<>>
    /\ leaked = FALSE
    /\ creators = [p \in Creators |-> IdleCreator]

\* Mutant of Campaign::new: a failed provisioning removes the file again.
Create_cleanup(name, fault, keep) ==
    LET p == database_path(name) IN
    /\ UNCHANGED appvars
    /\ UNCHANGED api
    /\ IF Exists(folder, p)
       THEN /\ res' = Res("create", name, FALSE, "AlreadyExists", 0)
            /\ UNCHANGED <<folder, disk, cmpgn>>
       ELSE LET ino == FreshIno(p)
                r == create_tables(api, EmptyDb, fault)
                fd == [q \in DOMAIN folder \cup {p} |->
                          IF q = p THEN ino ELSE folder[q]]
                dk == [i \in DOMAIN disk \cup {ino} |->
                          IF i = ino THEN r.db ELSE disk[i]]
                c == IF r.ok /\ keep THEN OpenStore(ino, 0) ELSE cmpgn
            IN /\ folder' = IF r.ok THEN fd ELSE folder
               /\ cmpgn' = c
               /\ disk' = Reclaim(dk, folder', c)
               /\ res' = IF r.ok THEN Res("create", name, TRUE, "", 0)
                                 ELSE Res("create", name, FALSE, "Sqlx", 0)
\* Campaign::new / DataStore::new.  The caller stores the returned store in
\* cmpgn (keep), which lets the previous one go, or lets the new one go at once.
Create(name, fault, keep) ==
    LET p == database_path(name) IN
    /\ UNCHANGED appvars
    /\ UNCHANGED api
    /\ IF Exists(folder, p)
       THEN /\ res' = Res("create", name, FALSE, "AlreadyExists", 0)
            /\ UNCHANGED <<folder, disk, cmpgn>>
       ELSE LET ino == FreshIno(p)
                r == create_tables(api, EmptyDb, fault)
                fd == [q \in DOMAIN folder \cup {p} |->
                          IF q = p THEN ino ELSE folder[q]]
                dk == [i \in DOMAIN disk \cup {ino} |->
                          IF i = ino THEN r.db ELSE disk[i]]
                c == IF r.ok /\ keep THEN OpenStore(ino, 0) ELSE cmpgn
            IN /\ folder' = fd
               /\ cmpgn' = c
               /\ disk' = Reclaim(dk, fd, c)
               /\ res' = IF r.ok THEN Res("create", name, TRUE, "", 0)
                                 ELSE Res("create", name, FALSE, "Sqlx", 0)

\* Campaign::open reads the turn from control; DataStore::open only connects
\* (its turn is read by current_turn).
open_store(a, fd, dk, name) ==
    LET p == database_path(name) IN
    IF ~Exists(fd, p) THEN [ok |-> FALSE, err |-> "NotFound", ino |-> NoIno, turn |-> 0]
    ELSE IF a = "Campaign"
         THEN LET t == open_turn(dk[fd[p]])
              IN IF t.ok THEN [ok |-> TRUE, err |-> "", ino |-> fd[p], turn |-> t.val]
                 ELSE [ok |-> FALSE, err |-> t.err, ino |-> NoIno, turn |-> 0]
         ELSE [ok |-> TRUE, err |-> "", ino |-> fd[p], turn |-> 0]

\* Campaign::open / DataStore::open, then (DataStore) current_turn of the
\* store just opened: the result carries the turn of the store, -1 when
\* current_turn returns an error.  A panic ends the process: the store it
\* held is gone with it.
Open(name, keep) ==
    LET o == open_store(api, folder, disk, name) IN
    /\ UNCHANGED appvars
    /\ UNCHANGED <<api, folder>>
    /\ IF ~o.ok
       THEN /\ res' = Res("open", name, FALSE, o.err, 0)
            /\ cmpgn' = IF o.err = "panic" THEN NoStore ELSE cmpgn
            /\ disk' = Reclaim(disk, folder, cmpgn')
       ELSE /\ cmpgn' = IF keep THEN OpenStore(o.ino, o.turn) ELSE cmpgn
            /\ disk' = Reclaim(disk, folder, cmpgn')
            /\ res' = Res("open", name, TRUE, "",
                          IF api = "Campaign" THEN o.turn
                          ELSE IF current_turn(disk[o.ino]).ok
                               THEN current_turn(disk[o.ino]).val
                               ELSE 0 - 1)

\* Campaign::close / DataStore::close: closing a closed pool does nothing.
Close ==
    /\ UNCHANGED appvars
    /\ cmpgn.st \in {"open", "closed"}
    /\ cmpgn' = [cmpgn EXCEPT !.st = "closed", !.ino = NoIno]
    /\ disk' = Reclaim(disk, folder, cmpgn')
    /\ res' = Res("close", <<>>, TRUE, "", 0)
    /\ UNCHANGED <<api, folder>>

\* self.cmpgn = None.
Drop ==
    /\ UNCHANGED appvars
    /\ cmpgn.st \in {"open", "closed"}
    /\ cmpgn' = NoStore
    /\ disk' = Reclaim(disk, folder, cmpgn')
    /\ res' = Res("drop", <<>>, TRUE, "", 0)
    /\ UNCHANGED <<api, folder>>

\* Mutant of remove_file: reports success and leaves the file in place.
remove_file_noop(fd, p) == fd

\* fs::remove_file on an existing entry.
remove_file(fd, p) == [q \in DOMAIN fd \ {p} |-> fd[q]]

\* Campaign::delete / DataStore::delete.
Delete(name) ==
    LET p == database_path(name) IN
    /\ UNCHANGED appvars
    /\ UNCHANGED <<api, cmpgn>>
    /\ IF ~Exists(folder, p)
       THEN /\ res' = Res("delete", name, FALSE, "NotFound", 0)
            /\ UNCHANGED <<folder, disk>>
       ELSE /\ folder' = remove_file(folder, p)
            /\ disk' = Reclaim(disk, folder', cmpgn)
            /\ res' = Res("delete", name, TRUE, "", 0)

\* Mutant of list: the file stems are returned as they are.
list_names_stems(fd) ==
    {file_stem(f) : f \in {g \in DOMAIN fd : extension(g) = DbExt}}

\* The names list() maps the directory entries to.
list_names(fd) ==
    {replace(file_stem(f), "_", " ") : f \in {g \in DOMAIN fd : extension(g) = DbExt}}

\* list / DataStore::available_campaigns; read_dir may fail.
List(dirFault) ==
    /\ UNCHANGED appvars
    /\ UNCHANGED <<api, folder, disk, cmpgn>>
    /\ IF dirFault
       THEN res' = Res("list", <<>>, FALSE, "Io", {})
       ELSE res' = Res("list", <<>>, TRUE, "", list_names(folder))

\* DataStore::current_turn on the store held.
CurrentTurn ==
    /\ UNCHANGED appvars
    /\ cmpgn.st \in {"open", "closed"}
    /\ api = "DataStore"
    /\ UNCHANGED <<api, folder, disk, cmpgn>>
    /\ IF cmpgn.st = "closed"
       THEN res' = Res("current_turn", <<>>, FALSE, "PoolClosed", 0)
       ELSE LET t == current_turn(disk[cmpgn.ino])
            IN res' = Res("current_turn", <<>>, t.ok, t.err, t.val)

Next ==
    \/ \E name \in Names, fault \in FaultPoints, keep \in BOOLEAN :
          Create(name, fault, keep)
    \/ \E name \in Names, keep \in BOOLEAN : Open(name, keep)
    \/ Close
    \/ Drop
    \/ \E name \in Names : Delete(name)
    \/ \E dirFault \in BOOLEAN : List(dirFault)
    \/ CurrentTurn

Spec == Init /\ [][Next]_vars

(***************************************************************************)
(* Campaign files that come from elsewhere.  open takes whatever file is   *)
(* at the derived path: one left by an earlier session, restored from a    *)
(* backup or edited with another tool, so its control value is an input.   *)
(***************************************************************************)
TurnValues == {<<"0">>, <<"7">>, <<"x">>, <<>>}

\* A provisioned database whose control row for 'turn' holds value.
stored_with_turn(a, value) ==
    [create_tables(a, EmptyDb, 0).db EXCEPT
        !.control = <<[key |-> "turn", value |-> value]>>]

\* A database file appears at the path of name.
PlaceFile(name, value) ==
    LET p == database_path(name) IN
    /\ UNCHANGED appvars
    /\ ~Exists(folder, p)
    /\ LET ino == FreshIno(p) IN
       /\ folder' = [q \in DOMAIN folder \cup {p} |->
                        IF q = p THEN ino ELSE folder[q]]
       /\ disk' = [i \in DOMAIN disk \cup {ino} |->
                      IF i = ino THEN stored_with_turn(api, value) ELSE disk[i]]
    /\ res' = Res("place", name, TRUE, "", value)
    /\ UNCHANGED <<api, cmpgn>>

TurnName == <<"a", "_">>

TurnNext ==
    \/ \E name \in {TurnName, <<>>}, keep \in BOOLEAN : Create(name, 0, keep)
    \/ \E name \in {TurnName, <<>>}, value \in TurnValues : PlaceFile(name, value)
    \/ \E name \in {TurnName, <<>>}, keep \in BOOLEAN : Open(name, keep)
    \/ Close
    \/ Drop
    \/ \E name \in {TurnName, <<>>} : Delete(name)
    \/ CurrentTurn

SpecTurn == Init /\ [][TurnNext]_vars
(***************************************************************************)
(* Systems: the entity codec.  A nullable column holds <<>> for NULL and   *)
(* <<v>> for a value.                                                      *)
(***************************************************************************)
SenorPrime == <<"S", "P">>
Vadurrinia == <<"V">>
HW == <<"H", "W">>

\* Mutant of System::new: the record starts with id 1.
new_system_id_one(name, ptype, raw, cap, pop, mor, ind) ==
    [id |-> 1, name |-> name, ptype |-> ptype, raw |-> raw, cap |-> cap,
     pop |-> pop, mor |-> mor, ind |-> ind, dev |-> 0, fails |-> 0, owner |-> 0]
\* System::new: id, dev, fails and owner start at 0.
new_system(name, ptype, raw, cap, pop, mor, ind) ==
    [id |-> 0, name |-> name, ptype |-> ptype, raw |-> raw, cap |-> cap,
     pop |-> pop, mor |-> mor, ind |-> ind, dev |-> 0, fails |-> 0, owner |-> 0]

\* Mutant of insert: cap and pop are bound the wrong way round.
insert_system_swapped(db, sys) ==
    IF ~HasTable(db, "systems") THEN [ok |-> FALSE, db |-> db]
    ELSE [ok |-> TRUE,
          db |-> [db EXCEPT
                    !.sys_seq = @ + 1,
                    !.systems = Append(@,
                        [id |-> db.sys_seq + 1, name |-> sys.name,
                         ptype |-> sys.ptype, raw |-> sys.raw, cap |-> sys.pop,
                         pop |-> sys.cap, mor |-> sys.mor, ind |-> sys.ind,
                         dev |-> 0, fails |-> 0, owner |-> <<>>])]]

\* System::insert / DataStore::insert_system: INSERT INTO systems (name,
\* ptype, raw, cap, pop, mor, ind); id is AUTOINCREMENT, dev and fails take
\* their DEFAULT 0, owner has no default and stays NULL.
insert_system(db, sys) ==
    IF ~HasTable(db, "systems") THEN [ok |-> FALSE, db |-> db]
    ELSE [ok |-> TRUE,
          db |-> [db EXCEPT
                    !.sys_seq = @ + 1,
                    !.systems = Append(@,
                        [id |-> db.sys_seq + 1, name |-> sys.name,
                         ptype |-> sys.ptype, raw |-> sys.raw, cap |-> sys.cap,
                         pop |-> sys.pop, mor |-> sys.mor, ind |-> sys.ind,
                         dev |-> 0, fails |-> 0, owner |-> <<>>])]]

\* Mutant of the row decoder: a NULL owner decodes as 1.
from_row_null_one(row) == [row EXCEPT !.owner = IF @ = <<>> THEN 1 ELSE @[1]]
\* sqlx::FromRow for System: a NULL INTEGER decodes as 0.
from_row(row) == [row EXCEPT !.owner = IF @ = <<>> THEN 0 ELSE @[1]]

NoSystem == new_system(<<>>, <<>>, 0, 0, 0, 0, 0)

\* System::select_by_name: SELECT * FROM systems WHERE NAME = ? (fetch_one
\* takes the first row, in rowid order).
select_by_name(db, name) ==
    IF ~HasTable(db, "systems") THEN [ok |-> FALSE, err |-> "Sqlx", sys |-> NoSystem]
    ELSE LET hit == {i \in 1..Len(db.systems) : db.systems[i].name = name}
         IN IF hit = {} THEN [ok |-> FALSE, err |-> "RowNotFound", sys |-> NoSystem]
            ELSE [ok |-> TRUE, err |-> "",
                  sys |-> from_row(db.systems[CHOOSE i \in hit : \A j \in hit : i <= j])]

\* System::select_all: SELECT * FROM systems.
select_all(db) ==
    IF ~HasTable(db, "systems") THEN [ok |-> FALSE, err |-> "Sqlx", rows |-> <<>>]
    ELSE [ok |-> TRUE, err |-> "",
          rows |-> [i \in 1..Len(db.systems) |-> from_row(db.systems[i])]]

\* DataStore::get_empire_name: SELECT name FROM empires WHERE id=? (fetch_one).
get_empire_name(db, id) ==
    LET hit == {i \in 1..Len(db.empires) : db.empires[i].id = id}
    IN IF ~HasTable(db, "empires") THEN [ok |-> FALSE, err |-> "Sqlx", name |-> ""]
       ELSE IF hit = {} THEN [ok |-> FALSE, err |-> "RowNotFound", name |-> ""]
       ELSE [ok |-> TRUE, err |-> "", name |-> db.empires[CHOOSE i \in hit : TRUE].name]

\* The owner_name arm shared by get_system_by_name and get_systems.
owner_name(db, owner) ==
    IF owner = 0 THEN [ok |-> TRUE, err |-> "", name |-> "None"]
    ELSE get_empire_name(db, owner)

WithOwner(sys, n) ==
    [id |-> sys.id, name |-> sys.name, ptype |-> sys.ptype, raw |-> sys.raw,
     cap |-> sys.cap, pop |-> sys.pop, mor |-> sys.mor, ind |-> sys.ind,
     dev |-> sys.dev, fails |-> sys.fails, owner |-> sys.owner, owner_name |-> n]

\* DataStore::get_system_by_name.
get_system_by_name(db, name) ==
    LET r == select_by_name(db, name)
        o == owner_name(db, r.sys.owner)
    IN IF ~r.ok THEN [ok |-> FALSE, err |-> r.err, sys |-> WithOwner(NoSystem, "")]
       ELSE IF ~o.ok THEN [ok |-> FALSE, err |-> o.err, sys |-> WithOwner(NoSystem, "")]
       ELSE [ok |-> TRUE, err |-> "", sys |-> WithOwner(r.sys, o.name)]

\* DataStore::get_systems: the first owner lookup that fails ends the read.
get_systems(db) ==
    LET r == select_all(db)
        bad == {i \in 1..Len(r.rows) : ~owner_name(db, r.rows[i].owner).ok}
    IN IF ~r.ok THEN [ok |-> FALSE, err |-> r.err, rows |-> <<>>]
       ELSE IF bad # {}
            THEN [ok |-> FALSE,
                  err |-> owner_name(db, r.rows[CHOOSE i \in bad : \A j \in bad : i <= j].owner).err,
                  rows |-> <<>>]
       ELSE [ok |-> TRUE, err |-> "",
             rows |-> [i \in 1..Len(r.rows) |->
                          WithOwner(r.rows[i], owner_name(db, r.rows[i].owner).name)]]

\* empire::by_id: the Empire with this id, if any.
by_id(db, id) ==
    IF HasTable(db, "empires") THEN {e \in {db.empires[i] : i \in 1..Len(db.empires)} : e.id = id}
    ELSE {}

\* System::get_owner_name: the owning empire's name, or "None".
get_owner_name(db, sys) ==
    IF by_id(db, sys.owner) = {} THEN "None"
    ELSE (CHOOSE e \in by_id(db, sys.owner) : TRUE).name

\* The System values callers hand to insert: built by System::new, or a
\* record read earlier that carries an id, counters and an owner.
SysInputs ==
    {[new_system(n, HW, r, 12, 10, 8, 10) EXCEPT
         !.id = c * 7, !.dev = c, !.fails = c, !.owner = c] :
       n \in {SenorPrime, Vadurrinia}, r \in {5, 3}, c \in {0, 1}}

Db == disk[cmpgn.ino]

WriteDb(db) == [disk EXCEPT ![cmpgn.ino] = db]

HasStore == cmpgn.st \in {"open", "closed"}

\* System::insert / DataStore::insert_system on the pool of the store.
InsertSystem(sys) ==
    /\ UNCHANGED appvars
    /\ HasStore
    /\ UNCHANGED <<api, folder, cmpgn>>
    /\ IF cmpgn.st = "closed"
       THEN /\ res' = Res("insert", sys.name, FALSE, "PoolClosed", sys)
            /\ UNCHANGED disk
       ELSE /\ Len(Db.systems) < MaxRows
            /\ LET r == insert_system(Db, sys)
               IN /\ disk' = WriteDb(r.db)
                  /\ res' = Res("insert", sys.name, r.ok, IF r.ok THEN "" ELSE "Sqlx", sys)

\* System::select_by_name (Campaign) / DataStore::get_system_by_name.
SelectByName(name) ==
    /\ UNCHANGED appvars
    /\ HasStore
    /\ UNCHANGED <<api, folder, disk, cmpgn>>
    /\ IF cmpgn.st = "closed"
       THEN res' = Res("select_by_name", name, FALSE, "PoolClosed", NoSystem)
       ELSE LET r == IF api = "Campaign" THEN select_by_name(Db, name)
                     ELSE get_system_by_name(Db, name)
            IN res' = Res("select_by_name", name, r.ok, r.err, r.sys)

\* Campaign::systems (system::get_all) / DataStore::get_systems.
Systems ==
    /\ UNCHANGED appvars
    /\ HasStore
    /\ UNCHANGED <<api, folder, disk, cmpgn>>
    /\ IF cmpgn.st = "closed"
       THEN res' = Res("systems", <<>>, FALSE, "PoolClosed", <<>>)
       ELSE LET r == IF api = "Campaign" THEN select_all(Db) ELSE get_systems(Db)
            IN res' = Res("systems", <<>>, r.ok, r.err, r.rows)

\* System::as_row on the i-th system read from the store: its owner name.
OwnerName(i) ==
    /\ UNCHANGED appvars
    /\ cmpgn.st = "open"
    /\ api = "Campaign"
    /\ select_all(Db).ok
    /\ i \in 1..Len(select_all(Db).rows)
    /\ UNCHANGED <<api, folder, disk, cmpgn>>
    /\ res' = Res("owner_name", select_all(Db).rows[i].name, TRUE, "",
                  WithOwner(select_all(Db).rows[i],
                            get_owner_name(Db, select_all(Db).rows[i])))

EmpireNames == {"Terran"}

\* Seeding of an empire name record: INSERT INTO empires (name).
AddEmpire(name) ==
    /\ UNCHANGED appvars
    /\ cmpgn.st = "open"
    /\ HasTable(Db, "empires")
    /\ Len(Db.empires) < MaxEmpires
    /\ UNCHANGED <<api, folder, cmpgn>>
    /\ disk' = WriteDb([Db EXCEPT !.emp_seq = @ + 1,
                                  !.empires = Append(@, [id |-> Db.emp_seq + 1, name |-> name])])
    /\ res' = Res("add_empire", <<>>, TRUE, "", 0)

\* update_system: the row with the identity of sys takes its owner; the
\* reference is advisory, no Empire has to exist for it.
update_system(db, id, owner) ==
    IF \E i \in 1..Len(db.systems) : db.systems[i].id = id
    THEN [ok |-> TRUE,
          db |-> [db EXCEPT !.systems =
                     [i \in 1..Len(db.systems) |->
                         IF db.systems[i].id = id
                         THEN [db.systems[i] EXCEPT !.owner = <<owner>>]
                         ELSE db.systems[i]]]]
    ELSE [ok |-> FALSE, db |-> db]

UpdateSystem(id, owner) ==
    /\ UNCHANGED appvars
    /\ cmpgn.st = "open"
    /\ HasTable(Db, "systems")
    /\ UNCHANGED <<api, folder, cmpgn>>
    /\ LET r == update_system(Db, id, owner)
       IN /\ disk' = WriteDb(r.db)
          /\ res' = Res("update", <<>>, r.ok, IF r.ok THEN "" ELSE "Sqlx", 0)

\* The one campaign the entity operations run on.
SysName == <<"a", " ">>

\* Lifecycle of that campaign: created, opened, closed, let go.
StoreNext ==
    \/ \E keep \in BOOLEAN : Create(SysName, 0, keep)
    \/ \E keep \in BOOLEAN : Open(SysName, keep)
    \/ Close
    \/ Drop

SysNext ==
    \/ StoreNext
    \/ \E sys \in SysInputs : InsertSystem(sys)
    \/ \E name \in {SenorPrime, Vadurrinia} : SelectByName(name)
    \/ Systems

SpecSys == Init /\ [][SysNext]_vars

OwnerNext ==
    \/ StoreNext
    \/ \E sys \in {s \in SysInputs : s.id = 0 /\ s.raw = 5} : InsertSystem(sys)
    \/ \E name \in EmpireNames : AddEmpire(name)
    \/ \E id \in 1..MaxRows, owner \in 0..(MaxEmpires + 1) : UpdateSystem(id, owner)
    \/ \E name \in {SenorPrime, Vadurrinia} : SelectByName(name)
    \/ Systems
    \/ \E i \in 1..MaxRows : OwnerName(i)

SpecOwner == Init /\ [][OwnerNext]_vars

(***************************************************************************)
(* The provisioner applied to storage that exists already, as the tests do *)
(* with Campaign::create_tables(&pool).                                    *)
(***************************************************************************)
\* The statement of the provisioner the storage engine fails (0: none).
PartialFaults == {0, 2, 3, 6}

\* create_tables on the pool of the store held.
Provision(fault) ==
    /\ UNCHANGED appvars
    /\ HasStore
    /\ UNCHANGED <<api, folder, cmpgn>>
    /\ IF cmpgn.st = "closed"
       THEN /\ fault = 0
            /\ res' = Res("provision", <<>>, FALSE, "PoolClosed", fault)
            /\ UNCHANGED disk
       ELSE LET r == create_tables(api, Db, fault)
            IN /\ disk' = WriteDb(r.db)
               /\ res' = Res("provision", <<>>, r.ok, IF r.ok THEN "" ELSE "Sqlx", fault)

ProvisionNext ==
    \/ \E fault \in PartialFaults, keep \in BOOLEAN : Create(SysName, fault, keep)
    \/ \E keep \in BOOLEAN : Open(SysName, keep)
    \/ Close
    \/ Drop
    \/ Delete(SysName)
    \/ \E fault \in PartialFaults : Provision(fault)
    \/ CurrentTurn

SpecProvision == Init /\ [][ProvisionNext]_vars
(***************************************************************************)
(* Two tasks inside Campaign::new / DataStore::new at once.  Each await    *)
(* of new is a point where the other task may run: after the existence     *)
(* check, after the connect, after every statement of the provisioner.     *)
(***************************************************************************)
RaceNames == {<<"a", " ">>, <<"a", "_">>, <<" ", "_">>}

Finished(ok, err, c) == [c EXCEPT !.pc = "done", !.ok = ok, !.err = err]

\* dbpath.exists(): the already-exists error, or on to the connect.
CheckExists(p, name) ==
    /\ creators[p].pc = "idle"
    /\ creators' = [creators EXCEPT ![p] =
          IF Exists(folder, database_path(name))
          THEN Finished(FALSE, "AlreadyExists", [@ EXCEPT !.name = name])
          ELSE [@ EXCEPT !.pc = "connect", !.name = name]]
    /\ UNCHANGED <<api, folder, disk, cmpgn, res, title, cname, leaked>>

\* SqlitePool::connect with mode=rwc: the file is created when it is missing,
\* opened when another task has created it meanwhile.
Connect(p) ==
    LET path == database_path(creators[p].name)
        ino == IF Exists(folder, path) THEN folder[path] ELSE FreshIno(path)
    IN /\ creators[p].pc = "connect"
       /\ folder' = [q \in DOMAIN folder \cup {path} |->
                        IF q = path THEN ino ELSE folder[q]]
       /\ disk' = [i \in DOMAIN disk \cup {ino} |->
                      IF i \in DOMAIN disk THEN disk[i] ELSE EmptyDb]
       /\ creators' = [creators EXCEPT ![p] =
                          [@ EXCEPT !.pc = "provision", !.ino = ino, !.stmt = 1]]
       /\ UNCHANGED <<api, cmpgn, res, title, cname, leaked>>

\* One statement of create_tables; the storage engine may refuse it (busy).
\* An error ends new with Err, the last statement ends it with the store.
ProvisionStep(p, busy) ==
    LET c == creators[p]
        r == Exec(disk[c.ino], Statements(api)[c.stmt])
    IN /\ c.pc = "provision"
       /\ IF busy
          THEN /\ creators' = [creators EXCEPT ![p] = Finished(FALSE, "Busy", c)]
               /\ UNCHANGED disk
          ELSE IF ~r.ok
          THEN /\ creators' = [creators EXCEPT ![p] = Finished(FALSE, "Sqlx", c)]
               /\ UNCHANGED disk
          ELSE /\ disk' = [disk EXCEPT ![c.ino] = r.db]
               /\ creators' = [creators EXCEPT ![p] =
                     IF c.stmt = Len(Statements(api))
                     THEN Finished(TRUE, "", c)
                     ELSE [c EXCEPT !.stmt = c.stmt + 1]]
       /\ UNCHANGED <<api, folder, cmpgn, res, title, cname, leaked>>

RaceNext ==
    \/ \E p \in Creators, name \in RaceNames : CheckExists(p, name)
    \/ \E p \in Creators : Connect(p)
    \/ \E p \in Creators, busy \in BOOLEAN : ProvisionStep(p, busy)

SpecRace == Init /\ [][RaceNext]_vars
(***************************************************************************)
(* The application: the handlers of the campaign menu.  They work on the   *)
(* Campaign layer; leaked records that a handle was let go with its pool   *)
(* still open.                                                             *)
(***************************************************************************)
\* Mutant of Campaign::close: the pool stays open.
close_noop(c) == c

\* Campaign::close on a handle.
close(c) == [c EXCEPT !.st = "closed", !.ino = NoIno]

\* A handle that is let go (overwritten or set to None) while its pool is open.
DroppedOpen(c) == c.st = "open"

\* VBAMApp::set_title.
set_title(c, n) ==
    IF c.st = "none" THEN BareTitle ELSE CampaignTitle(n, c.turn)

\* `if let Some(cm) = &self.cmpgn { cm.close().await; }`
close_current(c) == IF c.st = "none" THEN c ELSE close(c)

\* What the user does with a list dialog: Ok on a listed name, or nothing
\* chosen / Cancel.  The names come from Campaign::campaigns().
NoChoice == [some |-> FALSE, name |-> <<>>]

Choices(fd) == {NoChoice} \cup {[some |-> TRUE, name |-> n] : n \in list_names(fd)}

\* Campaign::new as a function of the folder and the files.
new_campaign_store(fd, dk, name, fault) ==
    LET p == database_path(name)
        ino == FreshIno(p)
        r == create_tables("Campaign", EmptyDb, fault)
    IN IF Exists(fd, p)
       THEN [ok |-> FALSE, err |-> "AlreadyExists", folder |-> fd, disk |-> dk, ino |-> NoIno]
       ELSE [ok |-> r.ok, err |-> IF r.ok THEN "" ELSE "Sqlx",
             folder |-> [q \in DOMAIN fd \cup {p} |-> IF q = p THEN ino ELSE fd[q]],
             disk |-> [i \in DOMAIN dk \cup {ino} |-> IF i = ino THEN r.db ELSE dk[i]],
             ino |-> ino]

Running == res.op # "Quit" /\ api = "Campaign"

\* VBAMApp::new_campaign: the dialog ends with Ok or Cancel and a name typed.
NewCampaign(is_ok, name, fault) ==
    LET c1 == close_current(cmpgn)
        n == new_campaign_store(folder, disk, name, fault)
    IN /\ Running
       /\ UNCHANGED <<api, creators>>
       /\ leaked' = (leaked \/ DroppedOpen(c1))
       /\ IF is_ok /\ name # <<>>
          THEN /\ folder' = n.folder
               /\ cmpgn' = IF n.ok THEN OpenStore(n.ino, 0) ELSE NoStore
               /\ cname' = IF n.ok THEN name ELSE <<>>
               /\ disk' = Reclaim(n.disk, folder', cmpgn')
               /\ title' = set_title(cmpgn', cname')
               /\ res' = Res("NewCampaign", name, n.ok, n.err, 0)
          ELSE /\ cmpgn' = NoStore
               /\ cname' = <<>>
               /\ disk' = Reclaim(disk, folder, cmpgn')
               /\ res' = Res("NewCampaign", name, FALSE, "Cancelled", 0)
               /\ UNCHANGED <<folder, title>>

\* VBAMApp::open_campaign.
OpenCampaign(choice) ==
    LET c1 == close_current(cmpgn)
        o == open_store("Campaign", folder, disk, choice.name)
    IN /\ Running
       /\ UNCHANGED <<api, folder, creators>>
       /\ IF choice.some
          THEN /\ leaked' = (leaked \/ DroppedOpen(c1))
               /\ cmpgn' = IF o.ok THEN OpenStore(o.ino, o.turn) ELSE NoStore
               /\ cname' = IF o.ok THEN choice.name ELSE <<>>
               /\ res' = Res("OpenCampaign", choice.name, o.ok, o.err, 0)
          ELSE /\ res' = Res("OpenCampaign", <<>>, FALSE, "Cancelled", 0)
               /\ UNCHANGED <<cmpgn, cname, leaked>>
       /\ disk' = Reclaim(disk, folder, cmpgn')
       /\ title' = set_title(cmpgn', cname')

\* VBAMApp::close_campaign.
CloseCampaign ==
    /\ Running
    /\ leaked' = (leaked \/ DroppedOpen(close_current(cmpgn)))
    /\ cmpgn' = NoStore
    /\ cname' = <<>>
    /\ disk' = Reclaim(disk, folder, cmpgn')
    /\ title' = set_title(cmpgn', cname')
    /\ res' = Res("CloseCampaign", <<>>, TRUE, "", 0)
    /\ UNCHANGED <<api, folder, creators>>

\* VBAMApp::delete_campaign.
DeleteCampaign(choice) ==
    /\ Running
    /\ UNCHANGED <<api, creators>>
    /\ IF choice.some
       THEN /\ leaked' = (leaked \/ DroppedOpen(close_current(cmpgn)))
            /\ cmpgn' = NoStore
            /\ cname' = <<>>
            /\ title' = IF cmpgn.st = "none" THEN title ELSE set_title(cmpgn', cname')
            /\ folder' = IF Exists(folder, database_path(choice.name))
                         THEN remove_file(folder, database_path(choice.name))
                         ELSE folder
            /\ disk' = Reclaim(disk, folder', cmpgn')
            /\ res' = Res("DeleteCampaign", choice.name,
                          Exists(folder, database_path(choice.name)),
                          IF Exists(folder, database_path(choice.name))
                          THEN "" ELSE "NotFound", 0)
       ELSE /\ res' = Res("DeleteCampaign", <<>>, FALSE, "Cancelled", 0)
            /\ UNCHANGED <<folder, disk, cmpgn, cname, title, leaked>>

\* Message::Quit: the handle is closed, then the message loop ends.
Quit ==
    /\ Running
    /\ cmpgn' = close_current(cmpgn)
    /\ disk' = Reclaim(disk, folder, cmpgn')
    /\ res' = Res("Quit", <<>>, TRUE, "", 0)
    /\ UNCHANGED <<api, folder, title, cname, leaked, creators>>

AppNext ==
    \/ \E is_ok \in BOOLEAN, name \in Names, fault \in FaultPoints :
          NewCampaign(is_ok, name, fault)
    \/ \E choice \in Choices(folder) : OpenCampaign(choice)
    \/ CloseCampaign
    \/ \E choice \in Choices(folder) : DeleteCampaign(choice)
    \/ Quit

SpecApp == Init /\ [][AppNext]_vars
(***************************************************************************)
(* The import pipeline.  A source is a sequence of lines, a line the       *)
(* sequence of its fields.                                                 *)
(***************************************************************************)
Header7 == << <<"N">>, <<"T">>, <<"R">>, <<"C">>, <<"P">>, <<"M">>, <<"I">> >>
Header6 == SubSeq(Header7, 1, 6)

Adaptable == <<"A", "d">>

RowSenor == <<SenorPrime, HW, <<"5">>, <<"1", "2">>, <<"1", "0">>, <<"8">>, <<"1", "0">> >>
RowVadur == <<Vadurrinia, Adaptable, <<"3">>, <<"8">>, <<"4">>, <<"3">>, <<"3">> >>
\* Vadurrinia without its IND field.
RowNoInd == SubSeq(RowVadur, 1, 6)
\* Vadurrinia with a RAW that is no integer.
RowBadRaw == <<Vadurrinia, Adaptable, <<"x">>, <<"8">>, <<"4">>, <<"3">>, <<"3">> >>

CsvRows == {RowSenor, RowVadur, RowNoInd, RowBadRaw}

NoFile == [exists |-> FALSE, lines |-> <<>>]

CsvFiles ==
    {NoFile} \cup
    {[exists |-> TRUE, lines |-> <<Header7>> \o rows] :
        rows \in SeqsUpTo(CsvRows, MaxSrcRows)} \cup
    {[exists |-> TRUE, lines |-> <<Header6>> \o rows] :
        rows \in SeqsUpTo({RowNoInd}, MaxSrcRows)}

\* csv::Reader::records with the default builder: the first line is the
\* header and is not yielded; a record whose number of fields differs from
\* the header's is an error (flexible is off).
csv_records(lines) ==
    IF Len(lines) = 0 THEN <<>>
    ELSE [i \in 1..(Len(lines) - 1) |->
             [ok |-> Len(lines[i + 1]) = Len(lines[1]), rcd |-> lines[i + 1]]]

\* StringRecord::get(i), i from 0.
Get(rcd, i) ==
    IF i + 1 <= Len(rcd) THEN [some |-> TRUE, v |-> rcd[i + 1]]
    ELSE [some |-> FALSE, v |-> <<>>]

\* A numeric column of from_csv: present and an integer.
Num(rcd, i) ==
    IF Get(rcd, i).some THEN parse_i32(Get(rcd, i).v) ELSE [ok |-> FALSE, val |-> 0]

\* Mutant of from_csv: pop is read from the cap column.
from_csv_shifted(rcd) ==
    IF /\ Get(rcd, 0).some /\ Get(rcd, 1).some
       /\ \A i \in 2..6 : Num(rcd, i).ok
    THEN [ok |-> TRUE,
          sys |-> new_system(Get(rcd, 0).v, Get(rcd, 1).v, Num(rcd, 2).val,
                             Num(rcd, 3).val, Num(rcd, 3).val, Num(rcd, 5).val,
                             Num(rcd, 6).val)]
    ELSE [ok |-> FALSE, sys |-> NoSystem]

\* System::from_csv.
from_csv(rcd) ==
    IF /\ Get(rcd, 0).some /\ Get(rcd, 1).some
       /\ \A i \in 2..6 : Num(rcd, i).ok
    THEN [ok |-> TRUE,
          sys |-> new_system(Get(rcd, 0).v, Get(rcd, 1).v, Num(rcd, 2).val,
                             Num(rcd, 3).val, Num(rcd, 4).val, Num(rcd, 5).val,
                             Num(rcd, 6).val)]
    ELSE [ok |-> FALSE, sys |-> NoSystem]

\* The loop of System::import from record i on; n inserts were tried so far,
\* the storage engine fails insert number `fault` (0: none).
RECURSIVE import_from(_, _, _, _, _)
import_from(db, recs, i, n, fault) ==
    IF i > Len(recs) THEN [ok |-> TRUE, err |-> "", db |-> db]
    ELSE IF ~recs[i].ok THEN [ok |-> FALSE, err |-> "Csv", db |-> db]
    ELSE IF ~from_csv(recs[i].rcd).ok THEN import_from(db, recs, i + 1, n, fault)
    ELSE IF n + 1 = fault \/ ~insert_system(db, from_csv(recs[i].rcd).sys).ok
         THEN [ok |-> FALSE, err |-> "Sqlx", db |-> db]
    ELSE import_from(insert_system(db, from_csv(recs[i].rcd).sys).db, recs,
                     i + 1, n + 1, fault)

\* The number of records of a source that System::import hands to insert
\* at most: the storage engine can only fail an insert that is issued.
Inserts(lines) ==
    Cardinality({i \in 1..Len(csv_records(lines)) :
        csv_records(lines)[i].ok /\ from_csv(csv_records(lines)[i].rcd).ok})

\* Mutant of System::import: a failed import leaves the table as it was.
import_atomic(db, lines, fault) ==
    LET r == import_from(db, csv_records(lines), 1, 0, fault)
    IN IF r.ok THEN r ELSE [r EXCEPT !.db = db]
\* System::import.
import(db, lines, fault) == import_from(db, csv_records(lines), 1, 0, fault)

\* The same loop on a closed pool: every insert fails.
RECURSIVE import_closed(_, _)
import_closed(recs, i) ==
    IF i > Len(recs) THEN [ok |-> TRUE, err |-> ""]
    ELSE IF ~recs[i].ok THEN [ok |-> FALSE, err |-> "Csv"]
    ELSE IF ~from_csv(recs[i].rcd).ok THEN import_closed(recs, i + 1)
    ELSE [ok |-> FALSE, err |-> "PoolClosed"]

\* Campaign::import_systems: system::import opens the file, System::import
\* reads and inserts record by record.
ImportSystems(file, fault) ==
    /\ UNCHANGED appvars
    /\ HasStore
    /\ api = "Campaign"
    /\ UNCHANGED <<api, folder, cmpgn>>
    /\ IF ~file.exists
       THEN /\ fault = 0
            /\ res' = Res("import", <<>>, FALSE, "Io", [file |-> file, fault |-> fault])
            /\ UNCHANGED disk
       ELSE IF cmpgn.st = "closed"
       THEN /\ fault = 0
            /\ res' = Res("import", <<>>, import_closed(csv_records(file.lines), 1).ok,
                          import_closed(csv_records(file.lines), 1).err,
                          [file |-> file, fault |-> fault])
            /\ UNCHANGED disk
       ELSE /\ Len(Db.systems) + Len(file.lines) - 1 <= MaxRows
            /\ fault <= Inserts(file.lines)
            /\ LET r == import(Db, file.lines, fault)
               IN /\ disk' = WriteDb(r.db)
                  /\ res' = Res("import", <<>>, r.ok, r.err,
                                [file |-> file, fault |-> fault])

\* The loop of DataStore::add_systems from system i on.
RECURSIVE add_from(_, _, _, _)
add_from(db, systems, i, fault) ==
    IF i > Len(systems) THEN [ok |-> TRUE, err |-> "", db |-> db]
    ELSE IF i = fault \/ ~insert_system(db, systems[i]).ok
         THEN [ok |-> FALSE, err |-> "Sqlx", db |-> db]
    ELSE add_from(insert_system(db, systems[i]).db, systems, i + 1, fault)

\* DataStore::add_systems.
AddSystems(systems, fault) ==
    /\ UNCHANGED appvars
    /\ HasStore
    /\ api = "DataStore"
    /\ UNCHANGED <<api, folder, cmpgn>>
    /\ IF cmpgn.st = "closed"
       THEN /\ fault = 0
            /\ res' = Res("add_systems", <<>>, Len(systems) = 0,
                          IF Len(systems) = 0 THEN "" ELSE "PoolClosed",
                          [systems |-> systems, fault |-> fault])
            /\ UNCHANGED disk
       ELSE /\ Len(Db.systems) + Len(systems) <= MaxRows
            /\ fault <= Len(systems)
            /\ LET r == add_from(Db, systems, 1, fault)
               IN /\ disk' = WriteDb(r.db)
                  /\ res' = Res("add_systems", <<>>, r.ok, r.err,
                                [systems |-> systems, fault |-> fault])

ImportNext ==
    \/ StoreNext
    \/ \E file \in CsvFiles, fault \in 0..MaxSrcRows : ImportSystems(file, fault)
    \/ \E systems \in SeqsUpTo({from_csv(RowSenor).sys, from_csv(RowVadur).sys}, MaxSrcRows),
          fault \in 0..MaxSrcRows : AddSystems(systems, fault)
    \/ Systems

SpecImport == Init /\ [][ImportNext]_vars

(***************************************************************************)
(* Properties of the campaign lifecycle.                                   *)
(***************************************************************************)
FullyProvisioned(db) ==
    /\ Len(db.control) = 1
    /\ Len(db.tables) >= Len(CampaignStatements) - 2

\* C1: create(name) fails with the already-exists conflict whenever the file
\* derived from name exists, and the failed create changes neither the
\* folder nor any file.
C1_CreateConflict ==
    [][(res'.op = "create" /\ database_path(res'.name) \in DOMAIN folder)
        => /\ ~res'.ok
           /\ res'.err = "AlreadyExists"
           /\ folder' = folder
           /\ disk' = disk]_vars

C1_Witness ==
    /\ res.op = "create"
    /\ res.err = "AlreadyExists"
    /\ database_path(res.name) \in DOMAIN folder
    /\ FullyProvisioned(disk[folder[database_path(res.name)]])

\* Two names of equal length that differ, and only where one has a space and
\* the other an underscore.
SpaceUnderscoreVariants(n, m) ==
    /\ Len(n) = Len(m)
    /\ n # m
    /\ \A i \in 1..Len(n) : n[i] = m[i] \/ {n[i], m[i]} = {" ", "_"}

\* C2: names that differ only by a space against an underscore derive the
\* same file, and creating one right after the other was created fails with
\* the conflict.
C2_SpaceUnderscoreConflict ==
    [][/\ \A n, m \in Names :
             SpaceUnderscoreVariants(n, m) => database_path(n) = database_path(m)
       /\ (res.op = "create" /\ res.ok /\ res'.op = "create"
             /\ SpaceUnderscoreVariants(res.name, res'.name))
            => (~res'.ok /\ res'.err = "AlreadyExists")]_vars

C2_Witness ==
    /\ res.op = "create"
    /\ res.err = "AlreadyExists"
    /\ \E n \in Names :
          /\ SpaceUnderscoreVariants(n, res.name)
          /\ <<"a", "_", ".">> \o DbExt \in DOMAIN folder

\* C3: open(name) fails when no file exists for name, and an open of X right
\* after a successful create(X) succeeds with turn 0.
C3_OpenRequiresExistence ==
    [][/\ (res'.op = "open" /\ database_path(res'.name) \notin DOMAIN folder)
            => ~res'.ok
       /\ (res.op = "create" /\ res.ok /\ res'.op = "open" /\ res'.name = res.name)
            => (res'.ok /\ res'.val = 0)]_vars

C3_Witness ==
    /\ res.op = "open"
    /\ res.ok
    /\ res.val = 0
    /\ cmpgn.st = "open"
    /\ cmpgn.ino = folder[database_path(res.name)]

\* C4: delete(name) fails when the file does not exist; otherwise the file
\* is gone from the folder and an open(name) right after it fails as not
\* found.
C4_DeleteRemovesStorage ==
    [][/\ (res'.op = "delete" /\ database_path(res'.name) \notin DOMAIN folder)
            => (~res'.ok /\ folder' = folder)
       /\ (res'.op = "delete" /\ database_path(res'.name) \in DOMAIN folder)
            => (res'.ok /\ database_path(res'.name) \notin DOMAIN folder')
       /\ (res.op = "delete" /\ res.ok /\ res'.op = "open" /\ res'.name = res.name)
            => (~res'.ok /\ res'.err = "NotFound")]_vars

C4_Witness ==
    /\ res.op = "delete"
    /\ res.ok
    /\ database_path(res.name) \notin DOMAIN folder
    /\ DOMAIN folder # {}

HasChar(n, c) == \E i \in 1..Len(n) : n[i] = c

\* C5 as stated: a list() right after the successful create of a name that
\* contains a space returns that name.
C5_ListKeepsSpacedName ==
    [][(res.op = "create" /\ res.ok /\ HasChar(res.name, " ")
          /\ res'.op = "list" /\ res'.ok)
        => res.name \in res'.val]_vars

\* C5 amended: a list() right after the successful create of a name that
\* contains a space returns the name with every underscore replaced by a
\* space, which is the name itself when it holds no underscore.
C5_ListKeepsSpaces ==
    [][(res.op = "create" /\ res.ok /\ HasChar(res.name, " ")
          /\ res'.op = "list" /\ res'.ok)
        => /\ [i \in 1..Len(res.name) |->
                  IF res.name[i] = "_" THEN " " ELSE res.name[i]] \in res'.val
           /\ ~HasChar(res.name, "_") => res.name \in res'.val]_vars

C5_Witness ==
    /\ res.op = "list"
    /\ res.ok
    /\ <<"a", " ">> \in res.val
    /\ <<" ", " ">> \in res.val

(***************************************************************************)
(* Properties of the entity codec.                                         *)
(***************************************************************************)
\* The record read back carries the persisted fields of the record inserted.
SamePersisted(act, exp) ==
    /\ act.name = exp.name
    /\ act.ptype = exp.ptype
    /\ act.raw = exp.raw
    /\ act.cap = exp.cap
    /\ act.pop = exp.pop
    /\ act.mor = exp.mor
    /\ act.ind = exp.ind
    /\ act.dev = 0
    /\ act.fails = 0

\* C6 as stated: a select_by_name on the name of the System just inserted
\* returns a record equal to it on name, ptype, raw, cap, pop, mor, ind, with
\* dev = 0 and fails = 0.
C6_InsertSelectRoundTrip ==
    [][(res.op = "insert" /\ res.ok /\ res'.op = "select_by_name"
          /\ res'.name = res.val.name)
        => (res'.ok /\ SamePersisted(res'.val, res.val))]_vars

\* C6 amended: the same, for a System whose name no other persisted System
\* carries.
C6_InsertSelectUniqueName ==
    [][(res.op = "insert" /\ res.ok /\ res'.op = "select_by_name"
          /\ res'.name = res.val.name
          /\ Cardinality({i \in 1..Len(Db.systems) :
                            Db.systems[i].name = res.val.name}) = 1)
        => (res'.ok /\ SamePersisted(res'.val, res.val))]_vars

C6_Witness ==
    /\ res.op = "select_by_name"
    /\ res.ok
    /\ res.val.name = SenorPrime
    /\ res.val.raw = 3
    /\ res.val.id = 2
    /\ Len(Db.systems) = 2

NoEmpire(db, id) == \A i \in 1..Len(db.empires) : db.empires[i].id # id

\* C7: reading a System never fails because of its owner reference: with
\* owner 0, or an owner id no Empire carries, the System is returned with
\* owner_name "None" by the per-system lookup, by get_system_by_name and by
\* get_systems.
C7_OwnerResolvesToNone ==
    /\ (res.op = "owner_name" /\ NoEmpire(Db, res.val.owner))
          => res.val.owner_name = "None"
    /\ (res.op = "select_by_name" /\ cmpgn.st = "open" /\ api = "DataStore"
          /\ select_by_name(Db, res.name).ok)
          => /\ res.ok
             /\ NoEmpire(Db, res.val.owner) => res.val.owner_name = "None"
    /\ (res.op = "systems" /\ cmpgn.st = "open" /\ api = "DataStore"
          /\ select_all(Db).ok)
          => /\ res.ok
             /\ \A i \in 1..Len(res.val) :
                   NoEmpire(Db, res.val[i].owner) => res.val[i].owner_name = "None"

(***************************************************************************)
(* Properties of the import pipeline.                                      *)
(***************************************************************************)
\* A data row with seven fields whose five numeric fields are integers.
WellFormed(row) == Len(row) = 7 /\ \A i \in 3..7 : parse_i32(row[i]).ok

DataRows(file) == SubSeq(file.lines, 2, Len(file.lines))

\* The persisted System a well-formed row stands for, as the row spells it.
RowMatches(sys, row) ==
    /\ sys.name = row[1]
    /\ sys.ptype = row[2]
    /\ parse_i32(row[3]).ok /\ sys.raw = parse_i32(row[3]).val
    /\ parse_i32(row[4]).ok /\ sys.cap = parse_i32(row[4]).val
    /\ parse_i32(row[5]).ok /\ sys.pop = parse_i32(row[5]).val
    /\ parse_i32(row[6]).ok /\ sys.mor = parse_i32(row[6]).val
    /\ parse_i32(row[7]).ok /\ sys.ind = parse_i32(row[7]).val
    /\ sys.dev = 0
    /\ sys.fails = 0

\* An import step on an open store with a readable file and a seven-column
\* header, during which the storage engine raises no error.
ImportStep ==
    /\ res'.op = "import"
    /\ cmpgn.st = "open"
    /\ res'.val.file.exists
    /\ res'.val.file.lines[1] = Header7
    /\ res'.val.fault = 0

Fresh(db) == db.systems = <<>> /\ db.sys_seq = 0

\* C8: importing a source of well-formed rows only into a freshly
\* provisioned campaign, with no storage error, persists one System per data
\* row, in order, with the row's values and dev = 0, fails = 0, and nothing
\* else (the header is no System).
C8_ImportWellFormed ==
    [][(ImportStep /\ Fresh(Db)
          /\ \A i \in 1..Len(DataRows(res'.val.file)) :
                WellFormed(DataRows(res'.val.file)[i]))
        => /\ res'.ok
           /\ Len(disk'[cmpgn.ino].systems) = Len(DataRows(res'.val.file))
           /\ \A i \in 1..Len(DataRows(res'.val.file)) :
                 RowMatches(select_all(disk'[cmpgn.ino]).rows[i],
                            DataRows(res'.val.file)[i])]_vars

C8_Witness ==
    /\ res.op = "import"
    /\ res.ok
    /\ res.val.file.lines = <<Header7, RowSenor, RowVadur>>
    /\ Len(Db.systems) = 2
    /\ Db.systems[1].name = SenorPrime
    /\ Db.systems[2].ind = 3

\* C9: a source with one well-formed row and one row missing the IND field,
\* in either order, imported into a fresh campaign ends with exactly one row
\* persisted and success, or with no row persisted and an error.
C9_MalformedRowOutcome ==
    [][(ImportStep /\ Fresh(Db)
          /\ DataRows(res'.val.file) \in {<<RowSenor, RowNoInd>>, <<RowNoInd, RowSenor>>})
        => \/ res'.ok /\ Len(disk'[cmpgn.ino].systems) = 1
           \/ ~res'.ok /\ Len(disk'[cmpgn.ino].systems) = 0]_vars

\* The indices of the well-formed rows of a source.
GoodRows(rows) == {i \in 1..Len(rows) : WellFormed(rows[i])}

\* C10: every invalid row, one with a missing field like one with a numeric
\* field that is no integer, is dropped silently: the import returns success
\* and persists exactly the well-formed rows.
C10_UniformLenientSkip ==
    [][ImportStep
        => /\ res'.ok
           /\ Len(disk'[cmpgn.ino].systems) =
                 Len(Db.systems) + Cardinality(GoodRows(DataRows(res'.val.file)))]_vars

\* The reader rejects data row k: its field count differs from the header's.
ReaderError(file, k) == Len(DataRows(file)[k]) # Len(file.lines[1])

\* The well-formed rows among the first n data rows, in order.
ValidUpTo(file, n) == SelectSeq(SubSeq(DataRows(file), 1, n), WellFormed)

\* Data row k is where the import fails: no row before it is rejected by the
\* reader, and row k is rejected by the reader or is the well-formed row whose
\* insert the storage engine fails.
FailsAt(file, fault, k) ==
    /\ \A j \in 1..(k - 1) : ~ReaderError(file, j)
    /\ \/ ReaderError(file, k)
       \/ /\ fault > 0
          /\ WellFormed(DataRows(file)[k])
          /\ Len(ValidUpTo(file, k)) = fault

\* The table after the step is the table before it followed by one row per
\* element of rows, in order.
Appended(rows) ==
    LET old == Db.systems
        new == disk'[cmpgn.ino].systems
    IN /\ Len(new) = Len(old) + Len(rows)
       /\ SubSeq(new, 1, Len(old)) = old
       /\ \A i \in 1..Len(rows) : RowMatches(from_row(new[Len(old) + i]), rows[i])

\* C11: import is not transactional.  When an import on an open store fails
\* at data row k, by a reader error or a storage error, the well-formed rows
\* before k are persisted, in order, nothing of row k or after it is, and the
\* caller gets the error; add_systems failing at its k-th System has
\* persisted exactly the k-1 Systems before it.
C11_ImportNotTransactional ==
    [][/\ (res'.op = "import" /\ cmpgn.st = "open" /\ res'.val.file.exists /\ ~res'.ok)
          => /\ res'.err \in {"Csv", "Sqlx"}
             /\ \E k \in 1..Len(DataRows(res'.val.file)) :
                   /\ FailsAt(res'.val.file, res'.val.fault, k)
                   /\ Appended(ValidUpTo(res'.val.file, k - 1))
       /\ (res'.op = "add_systems" /\ cmpgn.st = "open" /\ ~res'.ok)
          => /\ res'.err = "Sqlx"
             /\ res'.val.fault \in 1..Len(res'.val.systems)
             /\ Len(disk'[cmpgn.ino].systems) = Len(Db.systems) + res'.val.fault - 1
             /\ \A i \in 1..(res'.val.fault - 1) :
                   SamePersisted(disk'[cmpgn.ino].systems[Len(Db.systems) + i],
                                 res'.val.systems[i])]_vars

C11_Witness ==
    /\ res.op = "import"
    /\ ~res.ok
    /\ res.err = "Csv"
    /\ res.val.file.lines = <<Header7, RowSenor, RowNoInd>>
    /\ cmpgn.st = "open"
    /\ Len(Db.systems) = 1
    /\ Db.systems[1].name = SenorPrime

(***************************************************************************)
(* Properties of error handling in the lifecycle.                          *)
(***************************************************************************)
\* The file open(name) would connect to holds a 'turn' value that is no integer.
TurnNotInteger(name) ==
    /\ Exists(folder, database_path(name))
    /\ select_turn(disk[folder[database_path(name)]]).ok
    /\ ~parse_i32(select_turn(disk[folder[database_path(name)]]).val).ok

\* C12: open(name) on storage whose control value for 'turn' is no valid
\* integer fails with a Parse error handed to the caller; the process does
\* not abort.  (open leaves the folder and the linked files as they were,
\* so the file found after it is the file it read.)
C12_OpenParseError ==
    (res.op = "open" /\ TurnNotInteger(res.name))
        => (~res.ok /\ res.err = "Parse")

\* C13: list() never propagates a failure to enumerate the storage
\* directory: it returns a list of names, empty or partial, not an error.
C13_ListSwallowsDirFailure == res.op = "list" => res.ok

(***************************************************************************)
(* Properties of provisioning.                                             *)
(***************************************************************************)
TurnRows(db) == {i \in 1..Len(db.control) : db.control[i].key = "turn"}

\* What one run of the provisioner leaves in control and ground_types.
SeededOnce(db) ==
    /\ Cardinality(TurnRows(db)) = 1
    /\ Len(db.control) = 1
    /\ db.ground_types = <<"MIL", "LI", "MI", "LA", "MECH", "MAR">>

EightTables ==
    {"control", "empires", "systems", "fleets", "ground_types", "ground_units",
     "ship_types", "ships"}

\* The database file a successful create has just provisioned.
Created == disk[folder[database_path(res.name)]]

\* C15: after a successful create the storage contains all eight tables.
C15_AllEightTables ==
    (res.op = "create" /\ res.ok) => \A t \in EightTables : HasTable(Created, t)

\* The position of a table in the order of creation.
CreatedAt(db, t) == CHOOSE i \in 1..Len(db.tables) : db.tables[i] = t

\* C16: provisioning creates a table only after every table it references;
\* in particular systems before fleets and before ground_units.
C16_DependencyOrder ==
    (res.op = "create" /\ res.ok)
    => \A t \in EightTables : \A r \in References(t) :
          HasTable(Created, t)
          => (HasTable(Created, r) /\ CreatedAt(Created, r) < CreatedAt(Created, t))

(***************************************************************************)
(* Properties of a closed store.                                           *)
(***************************************************************************)
\* C17: after close(), systems() and import_systems() fail with an error
\* value; close() itself succeeds and leaves the store closed, also on a
\* store that is closed already.  (Neither operation changes the store the
\* application holds, so a store found closed after one of them was closed
\* when it was issued.)
C17_ClosedStoreFails ==
    /\ (cmpgn.st = "closed" /\ res.op \in {"systems", "import"}) => ~res.ok
    /\ res.op = "close" => (res.ok /\ cmpgn.st = "closed")

\* Storage on which the provisioner has run to its end.
AlreadyProvisioned(db) ==
    /\ \A i \in 1..Len(Statements(api)) :
          Statements(api)[i].kind = "table" => HasTable(db, Statements(api)[i].table)
    /\ db.control = <<[key |-> "turn", value |-> <<"0">>]>>

\* A provisioner step on the open store, whose storage is provisioned already.
Reprovision ==
    /\ res'.op = "provision"
    /\ cmpgn.st = "open"
    /\ AlreadyProvisioned(Db)

\* C18 as stated: a second run of the provisioner leaves the tables as they
\* are, raises no error for them, and adds a second ('turn', '0') row.
C18_SeedDuplicated ==
    [][Reprovision
        => /\ disk'[cmpgn.ino].tables = Db.tables
           /\ disk'[cmpgn.ino].control =
                 <<[key |-> "turn", value |-> <<"0">>], [key |-> "turn", value |-> <<"0">>]>>]_vars

\* C18 amended: on provisioned storage every table creation is a no-op that
\* raises no error, and the control seed insertion is rejected by the primary
\* key of control: the second run ends with a storage error and leaves the
\* storage exactly as it was, with its single ('turn', '0') row.
C18_SeedRejected ==
    [][Reprovision
        => /\ \A t \in EightTables :
                 HasTable(Db, t) =>
                    (Exec(Db, T(t)).ok /\ Exec(Db, T(t)).db = Db)
           /\ ~res'.ok
           /\ disk' = disk]_vars

C18_Witness ==
    /\ res.op = "provision"
    /\ ~res.ok
    /\ res.val = 0
    /\ cmpgn.st = "open"
    /\ AlreadyProvisioned(Db)
    /\ HasTable(Db, "ships")

(***************************************************************************)
(* Properties of identity and defaults.                                    *)
(***************************************************************************)
\* The row the insert step has just written, as select_all reads it back.
Written == select_all(disk'[cmpgn.ino]).rows[Len(disk'[cmpgn.ino].systems)]

\* C19: insert writes name, ptype, raw, cap, pop, mor and ind only.
\* Whatever dev, fails, owner and id the record carries, the row reads back
\* with dev = 0, fails = 0, owner = 0 and an id the store assigned.
C19_InsertWritesSevenFields ==
    [][(res'.op = "insert" /\ res'.ok)
        => /\ Len(disk'[cmpgn.ino].systems) = Len(Db.systems) + 1
           /\ SamePersisted(Written, res'.val)
           /\ Written.owner = 0
           /\ Written.id = Db.sys_seq + 1
           /\ \A i \in 1..Len(Db.systems) : Db.systems[i].id # Written.id]_vars

C19_Witness ==
    /\ res.op = "insert"
    /\ res.ok
    /\ res.val.id = 7
    /\ res.val.dev = 1
    /\ res.val.owner = 1
    /\ Len(Db.systems) = 1
    /\ select_all(Db).rows[1].id = 1
    /\ select_all(Db).rows[1].dev = 0
    /\ select_all(Db).rows[1].owner = 0

\* C20: a System built by System::new or by import has id 0 before it is
\* persisted; persisted Systems have ids >= 1, pairwise distinct and
\* increasing in the order of insertion, also when names are shared.
C20_StoreAssignedIds ==
    /\ new_system(SenorPrime, HW, 5, 12, 10, 8, 10).id = 0
    /\ from_csv(RowSenor).ok /\ from_csv(RowSenor).sys.id = 0
    /\ \A f \in DOMAIN disk :
          /\ \A i \in 1..Len(disk[f].systems) : disk[f].systems[i].id >= 1
          /\ \A i, j \in 1..Len(disk[f].systems) :
                i < j => disk[f].systems[i].id < disk[f].systems[j].id

C20_Witness ==
    /\ cmpgn.st = "open"
    /\ Len(Db.systems) = 2
    /\ Db.systems[1].name = Db.systems[2].name
    /\ Db.systems[1].id = 1
    /\ Db.systems[2].id = 2

(***************************************************************************)
(* Properties of concurrent creation.                                      *)
(***************************************************************************)
\* Creator p has returned, and not from the existence check.
PassedCheck(p) == creators[p].pc = "done" /\ creators[p].err # "AlreadyExists"

\* C21: when two create calls for the same derived identifier both pass the
\* existence check (no file is removed in between, so the second passes it
\* before the first has connected), at most one of them returns a store.
C21_RaceOneWinner ==
    \A p, q \in Creators :
       (/\ p # q
        /\ PassedCheck(p)
        /\ PassedCheck(q)
        /\ database_path(creators[p].name) = database_path(creators[q].name))
       => ~(creators[p].ok /\ creators[q].ok)

C21_Witness ==
    /\ creators[1].pc = "done"
    /\ creators[1].ok
    /\ creators[1].name = <<"a", " ">>
    /\ creators[2].pc = "done"
    /\ creators[2].name = <<"a", "_">>
    /\ creators[2].err = "Sqlx"

(***************************************************************************)
(* Properties of a failed create.                                          *)
(***************************************************************************)
\* The last operation was a create whose provisioning failed.
ProvisioningFailed == res.op = "create" /\ res.err = "Sqlx"

\* What C22 states apart from the listing: the failed create returns an
\* error and no store and leaves its file in place; a create of the same
\* name right after it meets the already-exists conflict, and a delete of
\* the name removes the file.
FailedCreateKeepsFile ==
    /\ (res'.op = "create" /\ res'.err = "Sqlx")
       => /\ ~res'.ok
          /\ cmpgn' = cmpgn
          /\ Exists(folder', database_path(res'.name))
    /\ (ProvisioningFailed /\ res'.op = "create" /\ res'.name = res.name)
       => (~res'.ok /\ res'.err = "AlreadyExists")
    /\ (ProvisioningFailed /\ res'.op = "delete" /\ res'.name = res.name)
       => (res'.ok /\ ~Exists(folder', database_path(res.name)))

\* C22 as stated: after a create whose provisioning failed the file stays,
\* list() returns the name, and create of the name conflicts until delete.
C22_FailedCreateListed ==
    [][/\ FailedCreateKeepsFile
       /\ (ProvisioningFailed /\ res'.op = "list" /\ res'.ok)
          => res.name \in res'.val]_vars

\* C22 amended: as above, but list() returns the name with every underscore
\* replaced by a space, and a file made for the empty name is not listed.
C22_FailedCreateListedAsDisplayed ==
    [][/\ FailedCreateKeepsFile
       /\ (ProvisioningFailed /\ res'.op = "list" /\ res'.ok)
          => /\ Len(res.name) > 0 => replace(res.name, "_", " ") \in res'.val
             /\ Len(res.name) = 0 => res.name \notin res'.val]_vars

C22_Witness ==
    /\ res.op = "create"
    /\ res.err = "AlreadyExists"
    /\ res.name = <<"a", "_">>
    /\ Exists(folder, database_path(res.name))
    /\ disk[folder[database_path(res.name)]].tables = <<"control">>
    /\ disk[folder[database_path(res.name)]].control = <<>>
    /\ cmpgn.st = "none"

(***************************************************************************)
(* Properties of the listed names.                                         *)
(***************************************************************************)
\* C23: every name list() returns derives to the path of an existing file,
\* so an open of a listed name right after the listing finds its file and a
\* delete of a listed name removes it; a campaign created with an underscore
\* in its name is listed with a space in its place and is reached the same way.
C23_ListedNamesResolve ==
    [][/\ (res'.op = "list" /\ res'.ok)
          => \A n \in res'.val : Exists(folder', database_path(n))
       /\ (res.op = "list" /\ res.ok /\ res'.op = "open" /\ res'.name \in res.val)
          => /\ res'.err # "NotFound"
             /\ (res'.ok /\ cmpgn' # cmpgn)
                => cmpgn'.ino = folder[database_path(res'.name)]
       /\ (res.op = "list" /\ res.ok /\ res'.op = "delete" /\ res'.name \in res.val)
          => (res'.ok /\ ~Exists(folder', database_path(res'.name)))]_vars

C23_Witness ==
    /\ res.op = "list"
    /\ res.ok
    /\ <<" ", " ">> \in res.val
    /\ <<" ", "_">> \notin res.val
    /\ Exists(folder, database_path(<<" ", "_">>))
    /\ database_path(<<" ", " ">>) = database_path(<<" ", "_">>)

(***************************************************************************)
(* Properties of the application.                                          *)
(***************************************************************************)
Handled == {"NewCampaign", "OpenCampaign", "CloseCampaign", "DeleteCampaign"}

C25_TitleAgrees ==
    res.op \in Handled
    => /\ cmpgn.st = "none" => title = BareTitle
       /\ cmpgn.st # "none" => title = CampaignTitle(cname, cmpgn.turn)

====
